---- MODULE Spec2Model ----
(***************************************************************************)
(* Run orchestration of mentor_py_api: the run registry (TrainingRunStore), *)
(* the per-run asyncio task and its supervisor (TrainingRunState,           *)
(* TrainingSessionRunner) and the file-backed status (TrainingStatusPayload *)
(* .from_files), as a state machine.                                        *)
(*                                                                         *)
(* Strings the code computes on (status texts) are tuples of one-character  *)
(* strings, so that str.lower() is computed and not assumed.  Strings the   *)
(* code only carries around (messages, paths) are opaque values.            *)
(***************************************************************************)
EXTENDS Integers, Sequences, FiniteSets, TLC

VARIABLES
    runs,    \* TrainingRunStore._runs: run id -> TrainingRunState or NoRun
    tasks,   \* the asyncio tasks created by start_new, with their supervisors
    fs,      \* the files under each results root, per run directory
    lock,    \* TrainingRunStore._lock: its owner, or NoOwner
    ret,     \* what the handler that has just returned handed to its caller
             \* (NoRet once any other step has been taken since)
    sessions,  \* the TrainingSessionRunner objects, each with the position
               \* and the locals of its _run_sync
    procs,     \* the processes _start_process has created
    listener,  \* who listens on the TensorBoard port
    issued,    \* the values uuid.uuid4() has returned
    streams,   \* the stdout and stderr pipes of the processes of one run,
               \* each with the _pump thread that drains it
    log,       \* what has been written to the run's mentor-api.log
    log_open   \* whether the `with open(self.log_path, ...)` block is still open

vars == <<runs, tasks, fs, lock, ret, sessions, procs, listener, issued, streams, log, log_open>>

\* The state of the registry and its files, and the state of the runners
store_vars == <<runs, tasks, fs, lock, ret>>
session_vars == <<sessions, procs, listener, issued, streams, log, log_open>>

(***************************** bounds **************************************)
\* The tasks one host process creates before it is restarted
MaxTasks == 2

RunIds == {"a", "b"}
ExitCodes == {0, 1}

(***************************** values **************************************)
\* Optional[T]: None is the empty tuple, a value v is the one-tuple <<v>>
None == <<>>
Some(v) == <<v>>

NoRun == [tracked |-> FALSE]
NoOwner == "NoOwner"
NoFile == [exists |-> FALSE]
NoRet == [op |-> "none"]

DEFAULT_RESULTS_DIRECTORY == "results"
Roots == {DEFAULT_RESULTS_DIRECTORY}
Overrides == {None} \cup {Some(d) : d \in Roots}

STR_running == <<"r","u","n","n","i","n","g">>
STR_succeeded == <<"s","u","c","c","e","e","d","e","d">>
STR_success == <<"s","u","c","c","e","s","s">>
STR_completed == <<"c","o","m","p","l","e","t","e","d">>
STR_failed == <<"f","a","i","l","e","d">>
STR_failure == <<"f","a","i","l","u","r","e">>
STR_unknown == <<"u","n","k","n","o","w","n">>
STR_not_found == <<"n","o","t","-","f","o","u","n","d">>

STR_Success == <<"S","u","c","c","e","s","s">>
STR_FAILED == <<"F","A","I","L","E","D">>

UpperCase == <<"A","B","C","D","E","F","G","H","I","J","K","L","M",
               "N","O","P","Q","R","S","T","U","V","W","X","Y","Z">>
LowerCase == <<"a","b","c","d","e","f","g","h","i","j","k","l","m",
               "n","o","p","q","r","s","t","u","v","w","x","y","z">>

\* str.lower() on one character, then on a string
LowerChar(c) ==
    IF \E i \in DOMAIN UpperCase : UpperCase[i] = c
    THEN LowerCase[CHOOSE i \in DOMAIN UpperCase : UpperCase[i] = c]
    ELSE c

str_lower(s) == [i \in DOMAIN s |-> LowerChar(s[i])]

\* The content of a training_status.json: a JSON object with a "status" string,
\* a JSON object without one, or text that is not JSON.
JsonStatus(s) == [exists |-> TRUE, json |-> "object", status |-> Some(s)]
JsonNoStatus == [exists |-> TRUE, json |-> "object", status |-> None]
NotJson == [exists |-> TRUE, json |-> "malformed", status |-> None]
StatusDocs == {JsonStatus(STR_Success), JsonStatus(STR_FAILED)}

\* A message: the format string and the value formatted into it
Msg(fmt, arg) == [fmt |-> fmt, arg |-> arg]

\* The errors a supervisor can end with, each with its str()
SpawnError == [type |-> "FileNotFoundError", text |-> Msg("[Errno 2] No such file or directory", "")]
Errors == {SpawnError}

\* How the file system answers start_new: all writes succeed, mkdir raises,
\* opening the metadata file raises, or writing it raises after the open
\* has truncated the file
IoOutcomes == {"ok", "mkdir_fails", "open_fails", "write_fails"}

\* TrainingOptions as the request layer hands them over
MkOptions(run_id, results_directory) ==
    [env_executable_path |-> None, trainer_config_path |-> "config.yaml",
     run_id |-> run_id, results_directory |-> results_directory,
     conda_environment_name |-> "mlagents", base_port |-> None,
     no_graphics |-> FALSE, skip_conda |-> FALSE, launch_tensorboard |-> FALSE]

AllOptions == {MkOptions(r, d) : r \in RunIds, d \in Roots}

\* No runner has been constructed and no process created
NobodyListens == [by |-> "nobody"]

NoSessions ==
    /\ sessions = <<>>
    /\ procs = <<>>
    /\ listener = NobodyListens
    /\ issued = {}
    /\ streams = <<>>
    /\ log = <<>>
    /\ log_open = FALSE

(***************************** files ***************************************)
build_run_directory(results_directory, run_id) == <<results_directory, run_id>>

build_training_status_path(results_directory, run_id) ==
    <<results_directory, run_id, "run_logs", "training_status.json">>

RunDirs == {build_run_directory(d, r) : d \in Roots, r \in RunIds}

\* A run directory that does not exist
NoDir == [dir |-> FALSE, metadata |-> NoFile, status_file |-> NoFile]

isdir(run_directory) == fs[run_directory].dir

\* os.path.isfile(<run directory>/run_logs/training_status.json)
isfile_status(results_directory, run_id) ==
    fs[build_run_directory(results_directory, run_id)].status_file.exists

(***************************** status files ********************************)
\* Optional[str]: the "status" string of the document, None when the file is
\* missing, is not JSON, is no object or has no string under "status"
_try_read_status(doc) ==
    IF doc.exists /\ doc.json = "object" THEN doc.status ELSE None

NormalizeLookup(normalized, status) ==
    CASE normalized = STR_success -> STR_succeeded
      [] normalized = STR_succeeded -> STR_succeeded
      [] normalized = STR_completed -> STR_succeeded
      [] normalized = STR_failure -> STR_failed
      [] normalized = STR_failed -> STR_failed
      [] OTHER -> status

\* _normalize_status looking the status up as it is spelled
_normalize_status_as_spelled(status) ==
    IF status # None /\ status[1] # <<>>
    THEN NormalizeLookup(status[1], status[1])
    ELSE STR_completed

\* `if status:` is false for None and for the empty string
_normalize_status(status) ==
    IF status # None /\ status[1] # <<>>
    THEN NormalizeLookup(str_lower(status[1]), status[1])
    ELSE STR_completed

\* _is_completed_status comparing the status as it is spelled
_is_completed_status_as_spelled(status) ==
    IF status = None \/ status[1] = <<>>
    THEN FALSE
    ELSE status[1] \in
            {STR_succeeded, STR_success, STR_failed, STR_failure, STR_completed}

_is_completed_status(status) ==
    IF status = None \/ status[1] = <<>>
    THEN FALSE
    ELSE str_lower(status[1]) \in
            {STR_succeeded, STR_success, STR_failed, STR_failure, STR_completed}

TrainingStatusPayload(run_id, status, completed, exit_code, results_directory, training_status_path, message, tensorboard_url) ==
    [run_id |-> run_id, status |-> status, completed |-> completed,
     exit_code |-> exit_code, results_directory |-> results_directory,
     training_status_path |-> training_status_path, message |-> message,
     tensorboard_url |-> tensorboard_url]

\* from_files testing the results root, which exists, for the run directory
from_files_testing_root(run_id, results_directory) ==
    LET training_status_path == build_training_status_path(results_directory, run_id)
    IN  IF isfile_status(results_directory, run_id)
        THEN TrainingStatusPayload(run_id,
                 _normalize_status(_try_read_status(
                     fs[build_run_directory(results_directory, run_id)].status_file)),
                 TRUE, None, results_directory, training_status_path, None, None)
        ELSE TrainingStatusPayload(run_id, STR_unknown, FALSE, None,
                 results_directory, training_status_path,
                 Some(Msg("Run directory exists but training_status.json has not been written yet.", "")),
                 None)

from_files(run_id, results_directory) ==
    LET training_status_path == build_training_status_path(results_directory, run_id)
        run_directory == build_run_directory(results_directory, run_id)
    IN  IF isfile_status(results_directory, run_id)
        THEN TrainingStatusPayload(run_id,
                 _normalize_status(_try_read_status(fs[run_directory].status_file)),
                 TRUE, None, results_directory, training_status_path, None, None)
        ELSE IF isdir(run_directory)
        THEN TrainingStatusPayload(run_id, STR_unknown, FALSE, None,
                 results_directory, training_status_path,
                 Some(Msg("Run directory exists but training_status.json has not been written yet.", "")),
                 None)
        ELSE TrainingStatusPayload(run_id, STR_not_found, FALSE, None,
                 results_directory, training_status_path,
                 Some(Msg("No run data found at '{}'.", run_directory)), None)

(***************************** outcomes and tasks **************************)
TrainingRunOutcome(exit_code, error) == [exit_code |-> exit_code, error |-> error]

from_exit_code(exit_code) == TrainingRunOutcome(Some(exit_code), None)

from_error(error) == TrainingRunOutcome(None, Some(error))

\* is_success looking at the error alone
is_success_without_exit_code(outcome) == outcome.error = None

\* (self.exit_code or 0) == 0
is_success(outcome) ==
    /\ outcome.error = None
    /\ (IF outcome.exit_code = None THEN 0 ELSE outcome.exit_code[1]) = 0

\* An asyncio task running _execute, with the supervisor thread it hands
\* _run_sync to.  state: the task (pending, done, cancelled, or raised when
\* its coroutine ended with an exception); sup: where the supervisor is;
\* returned: what _run_sync ended with once it has (an exit code or an error);
\* result: the task's result once it is done.
Task(options, state, sup, returned, result) ==
    [options |-> options, state |-> state, sup |-> sup,
     returned |-> returned, result |-> result]

NewTask(options) == Task(options, "pending", "unstarted", None, None)

task_cancelled(task) == task.state = "cancelled"

\* asyncio.Task.done(): finished, cancelled or raised
task_done(task) == task.state \in {"done", "cancelled", "raised"}

(***************************** run records *********************************)
TrainingRunState(options, log_path, tensorboard_url, task) ==
    [tracked |-> TRUE, options |-> options, log_path |-> log_path,
     tensorboard_url |-> tensorboard_url, task |-> task]

\* is_completed, taking the supervisor's return for the task's completion
is_completed_on_return(run) == tasks[run.task].sup = "returned"

\* is_completed, counting only a successful outcome
is_completed_on_success(run) ==
    /\ task_done(tasks[run.task])
    /\ tasks[run.task].state = "done"
    /\ is_success(tasks[run.task].result[1])

\* is_completed as soon as the supervisor has been handed to the executor
is_completed_once_started(run) == tasks[run.task].sup # "unstarted"

is_completed(run) == task_done(tasks[run.task])

\* to_payload without its `elif self._task.done()` branch
to_payload_of_pending(run, task) ==
    TrainingStatusPayload(run.options.run_id,
        IF task_cancelled(task) THEN STR_failed ELSE STR_running,
        task_cancelled(task), None, run.options.results_directory,
        build_training_status_path(run.options.results_directory, run.options.run_id),
        IF task_cancelled(task) THEN Some(Msg("Training was canceled.", "")) ELSE None,
        run.tensorboard_url)

\* to_payload on a record whose task is in state `task`
to_payload_of(run, task) ==
    LET cancelled == task_cancelled(task)
        finished == ~cancelled /\ task.state = "done"
        raised == ~cancelled /\ task.state = "raised"
        outcome == task.result[1]
        status == IF cancelled THEN STR_failed
                  ELSE IF finished
                       THEN (IF is_success(outcome) THEN STR_succeeded ELSE STR_failed)
                  ELSE IF raised THEN STR_failed
                  ELSE STR_running
        exit_code == IF finished THEN outcome.exit_code ELSE None
        message == IF cancelled THEN Some(Msg("Training was canceled.", ""))
                   ELSE IF finished
                        THEN (IF outcome.error # None
                              THEN Some(outcome.error[1].text) ELSE None)
                   ELSE IF raised THEN Some(task.result[1].text)
                   ELSE None
    IN  TrainingStatusPayload(run.options.run_id, status, status # STR_running,
            exit_code, run.options.results_directory,
            build_training_status_path(run.options.results_directory,
                                       run.options.run_id),
            message, run.tensorboard_url)

\* to_payload looking the run id up in the registry instead of using its own task
to_payload_of_registered(run) ==
    to_payload_of(run, tasks[runs[run.options.run_id].task])

to_payload(run) == to_payload_of(run, tasks[run.task])

(***************************** metadata ************************************)
\* The document TrainingRunMetadata.save writes
MetadataDocument(options) ==
    [exists |-> TRUE, json |-> "object",
     payload |-> [envPath |-> options.env_executable_path,
                  configPath |-> options.trainer_config_path,
                  runId |-> options.run_id,
                  resultsDirectory |-> options.results_directory,
                  condaEnvironmentName |-> options.conda_environment_name,
                  basePort |-> options.base_port,
                  noGraphics |-> options.no_graphics,
                  skipConda |-> options.skip_conda,
                  launchTensorboard |-> options.launch_tensorboard]]

\* What write_text leaves when the write raises after open(..., "w")
TruncatedDocument == [exists |-> TRUE, json |-> "malformed"]

\* The run directory after start_new's mkdir alone
SavedRunDirectory_without_metadata(old, options, io) ==
    IF io = "mkdir_fails" THEN old ELSE [old EXCEPT !.dir = TRUE]

\* The run directory after start_new's mkdir and TrainingRunMetadata.save
SavedRunDirectory(old, options, io) ==
    CASE io = "mkdir_fails" -> old
      [] io = "open_fails" -> [old EXCEPT !.dir = TRUE]
      [] io = "write_fails" -> [old EXCEPT !.dir = TRUE, !.metadata = TruncatedDocument]
      [] OTHER -> [old EXCEPT !.dir = TRUE, !.metadata = MetadataDocument(options)]

(***************************** the registry ********************************)
DEFAULT_TENSORBOARD_PORT == 6006

\* TrainingSessionRunner.tensorboard_url of a runner built by start_new
runner_tensorboard_url(options) ==
    IF options.launch_tensorboard THEN Some(DEFAULT_TENSORBOARD_PORT) ELSE None

log_path_of(options) ==
    <<options.results_directory, options.run_id, "run_logs", "mentor-api.log">>

\* The lock kept by the starting call until its run is over
LockKeptForRun(holder) == holder

\* The lock after the `with self._lock:` block has been left
LockOnReturn(holder) == NoOwner

TrainingStartResult(options, is_started, run, message) ==
    [op |-> "try_start", options |-> options, raised |-> FALSE,
     is_started |-> is_started, run |-> run, message |-> message]

Raised(op, options, error) ==
    [op |-> op, options |-> options, raised |-> TRUE, error |-> error]

\* The task when start_new runs _execute to its end instead of scheduling it
CreatedTask_awaited(options) ==
    Task(options, "done", "returned", Some(from_exit_code(0)), Some(from_exit_code(0)))

\* The task loop.create_task(_execute()) returns: scheduled, not yet run
CreatedTask(options) == NewTask(options)

\* A try_start that schedules the task and registers the record before the
\* run directory and the metadata are written
try_start_registering_first(options, io) ==
    /\ UNCHANGED session_vars
    /\ lock = NoOwner
    /\ LET existing == runs[options.run_id]
           run_directory == build_run_directory(options.results_directory, options.run_id)
           state == TrainingRunState(options, log_path_of(options),
                        runner_tensorboard_url(options), Len(tasks) + 1)
       IN  IF existing.tracked /\ ~is_completed(existing)
           THEN /\ ret' = TrainingStartResult(options, FALSE, existing,
                              Some(Msg("Training run '{}' is already in progress.",
                                       options.run_id)))
                /\ lock' = LockOnReturn(options.run_id)
                /\ UNCHANGED <<runs, tasks, fs>>
           ELSE /\ Len(tasks) < MaxTasks
                /\ tasks' = Append(tasks, CreatedTask(options))
                /\ runs' = [runs EXCEPT ![options.run_id] = state]
                /\ fs' = [fs EXCEPT ![run_directory] =
                                SavedRunDirectory(fs[run_directory], options, io)]
                /\ ret' = IF io = "ok" THEN TrainingStartResult(options, TRUE, state, None)
                          ELSE Raised("try_start", options, "OSError")
                /\ lock' = LockOnReturn(options.run_id)

try_start(options, io) ==
    /\ UNCHANGED session_vars
    /\ lock = NoOwner
    /\ LET existing == runs[options.run_id]
           run_directory == build_run_directory(options.results_directory, options.run_id)
       IN  IF existing.tracked /\ ~is_completed(existing)
           THEN /\ ret' = TrainingStartResult(options, FALSE, existing,
                              Some(Msg("Training run '{}' is already in progress.",
                                       options.run_id)))
                /\ lock' = LockOnReturn(options.run_id)
                /\ UNCHANGED <<runs, tasks, fs>>
           ELSE /\ Len(tasks) < MaxTasks
                /\ fs' = [fs EXCEPT ![run_directory] =
                                SavedRunDirectory(fs[run_directory], options, io)]
                /\ IF io = "ok"
                   THEN LET state == TrainingRunState(options, log_path_of(options),
                                         runner_tensorboard_url(options),
                                         Len(tasks) + 1)
                        IN  /\ tasks' = Append(tasks, CreatedTask(options))
                            /\ runs' = [runs EXCEPT ![options.run_id] = state]
                            /\ ret' = TrainingStartResult(options, TRUE, state, None)
                   ELSE /\ ret' = Raised("try_start", options, "OSError")
                        /\ UNCHANGED <<runs, tasks>>
                /\ lock' = LockOnReturn(options.run_id)

_resolve_results_directory(results_dir_override) ==
    IF results_dir_override = None THEN DEFAULT_RESULTS_DIRECTORY
    ELSE results_dir_override[1]

\* A get_status that waits for the task of a tracked run to be done
get_status_awaiting(run_id, results_dir_override) ==
    /\ UNCHANGED session_vars
    /\ lock = NoOwner
    /\ runs[run_id].tracked => task_done(tasks[runs[run_id].task])
    /\ LET tracked == runs[run_id]
       IN  ret' = [op |-> "get_status", run_id |-> run_id,
                   payload |-> IF tracked.tracked THEN to_payload(tracked)
                               ELSE from_files(run_id,
                                        _resolve_results_directory(results_dir_override))]
    /\ UNCHANGED <<runs, tasks, fs, lock>>

get_status(run_id, results_dir_override) ==
    /\ UNCHANGED session_vars
    /\ lock = NoOwner
    /\ LET tracked == runs[run_id]
       IN  ret' = [op |-> "get_status", run_id |-> run_id,
                   payload |-> IF tracked.tracked THEN to_payload(tracked)
                               ELSE from_files(run_id,
                                        _resolve_results_directory(results_dir_override))]
    /\ UNCHANGED <<runs, tasks, fs, lock>>

(***************************** the run's task ******************************)
\* The event loop runs _execute up to `await runner.run()`, which hands
\* _run_sync to the executor
ExecuteBegins(t) ==
    /\ UNCHANGED session_vars
    /\ tasks[t].state = "pending" /\ tasks[t].sup = "unstarted"
    /\ tasks' = [tasks EXCEPT ![t].sup = "running"]
    /\ ret' = NoRet
    /\ UNCHANGED <<runs, fs, lock>>

\* _run_sync raises before the training process runs (Popen fails)
SpawnFails(t, error) ==
    /\ UNCHANGED session_vars
    /\ tasks[t].sup = "running"
    /\ tasks' = [tasks EXCEPT ![t].sup = "returned",
                              ![t].returned = Some(from_error(error))]
    /\ ret' = NoRet
    /\ UNCHANGED <<runs, fs, lock>>

\* _start_process(training_command): the training process runs
SpawnTraining(t) ==
    /\ UNCHANGED session_vars
    /\ tasks[t].sup = "running"
    /\ tasks' = [tasks EXCEPT ![t].sup = "training"]
    /\ ret' = NoRet
    /\ UNCHANGED <<runs, fs, lock>>

\* The training tool writes its training_status.json
TrainingWritesStatus(t, doc) ==
    /\ UNCHANGED session_vars
    /\ tasks[t].sup = "training"
    /\ LET o == tasks[t].options
       IN  fs' = [fs EXCEPT ![build_run_directory(o.results_directory, o.run_id)]
                                .status_file = doc]
    /\ ret' = NoRet
    /\ UNCHANGED <<runs, tasks, lock>>

\* A supervisor that spawns the training process again after a non-zero exit
TrainingExits_retrying(t, exit_code) ==
    /\ UNCHANGED session_vars
    /\ tasks[t].sup = "training"
    /\ tasks' = IF exit_code = 0
                THEN [tasks EXCEPT ![t].sup = "returned",
                                   ![t].returned = Some(from_exit_code(exit_code))]
                ELSE [tasks EXCEPT ![t].sup = "running"]
    /\ ret' = NoRet
    /\ UNCHANGED <<runs, fs, lock>>

\* process.wait() returns and _run_sync returns the exit code
TrainingExits(t, exit_code) ==
    /\ UNCHANGED session_vars
    /\ tasks[t].sup = "training"
    /\ tasks' = [tasks EXCEPT ![t].sup = "returned",
                              ![t].returned = Some(from_exit_code(exit_code))]
    /\ ret' = NoRet
    /\ UNCHANGED <<runs, fs, lock>>

\* _execute returns the outcome and the task is done
ExecuteReturns(t) ==
    /\ UNCHANGED session_vars
    /\ tasks[t].state = "pending" /\ tasks[t].sup = "returned"
    /\ tasks' = [tasks EXCEPT ![t].state = "done", ![t].result = tasks[t].returned]
    /\ ret' = NoRet
    /\ UNCHANGED <<runs, fs, lock>>

\* The host process is started again: run_store = TrainingRunStore(). The
\* startup pass of resume_unfinished_runs changes nothing here: the options
\* of this specification name no environment executable, so it skips every
\* run. RecoverySpec below is the specification of that pass.
Restart ==
    /\ UNCHANGED session_vars
    /\ runs' = [r \in RunIds |-> NoRun]
    /\ tasks' = <<>>
    /\ lock' = NoOwner
    /\ ret' = NoRet
    /\ UNCHANGED fs

(***************************** specification *******************************)
Init ==
    /\ NoSessions
    /\ runs = [r \in RunIds |-> NoRun]
    /\ tasks = <<>>
    /\ fs = [d \in RunDirs |-> NoDir]
    /\ lock = NoOwner
    /\ ret = NoRet

TryStart == \E options \in AllOptions, io \in IoOutcomes : try_start(options, io)

GetStatus == \E run_id \in RunIds, ov \in Overrides : get_status(run_id, ov)

Next ==
    \/ TryStart
    \/ GetStatus
    \/ \E t \in DOMAIN tasks : ExecuteBegins(t)
    \/ \E t \in DOMAIN tasks, error \in Errors : SpawnFails(t, error)
    \/ \E t \in DOMAIN tasks : SpawnTraining(t)
    \/ \E t \in DOMAIN tasks, doc \in StatusDocs : TrainingWritesStatus(t, doc)
    \/ \E t \in DOMAIN tasks, exit_code \in ExitCodes : TrainingExits(t, exit_code)
    \/ \E t \in DOMAIN tasks : ExecuteReturns(t)
    \/ Restart

Spec == Init /\ [][Next]_vars

(***************************** claims **************************************)
Terminal == {STR_succeeded, STR_failed}

\* The record of run id r is tracked and its task has not finished
Active(r) == runs[r].tracked /\ tasks[runs[r].task].state = "pending"

\* The record of run id r is tracked and its task has finished
Finished(r) == runs[r].tracked /\ tasks[runs[r].task].state = "done"

\* The status a payload derived from the record that owns task t reports
StatusOfRecord(t) ==
    to_payload(TrainingRunState(tasks[t].options, log_path_of(tasks[t].options),
                                runner_tensorboard_url(tasks[t].options), t)).status

\* C1: a try_start for a run id whose record is not completed returns a
\* conflict whose message names the id, schedules no task, moves no
\* supervisor (so spawns nothing), writes no file, and leaves the registry
\* with its one record for the id, unchanged.
C1_ConflictChangesNothing ==
    [][\A options \in AllOptions, io \in IoOutcomes :
         (try_start(options, io) /\ Active(options.run_id)) =>
            /\ ret'.raised = FALSE
            /\ ret'.is_started = FALSE
            /\ ret'.message = Some(Msg("Training run '{}' is already in progress.",
                                       options.run_id))
            /\ ret'.run = runs[options.run_id]
            /\ tasks' = tasks
            /\ fs' = fs
            /\ runs' = runs
            /\ Cardinality({r \in RunIds : runs'[r].tracked
                              /\ runs'[r].options.run_id = options.run_id}) = 1]_vars

C1_Witness ==
    /\ ret.op = "try_start"
    /\ ret.raised = FALSE
    /\ ret.is_started = FALSE
    /\ Active(ret.options.run_id)

\* C2: a try_start for a run id whose record is completed, succeeded or
\* failed, never returns a conflict.  With the run directory and the metadata
\* written it returns started, and the registry maps the id to the newly
\* created record (a new task, still pending) in place of the old one, whose
\* task is left as it was.  Its only other outcome is the OSError of that
\* write reaching the caller, with the old record left in the registry.
C2_CompletedRunStartsAgain ==
    [][\A options \in AllOptions, io \in IoOutcomes :
         (try_start(options, io) /\ Finished(options.run_id)) =>
            IF io = "ok"
            THEN /\ ret'.raised = FALSE
                 /\ ret'.is_started
                 /\ runs'[options.run_id] = ret'.run
                 /\ runs'[options.run_id] # runs[options.run_id]
                 /\ runs'[options.run_id].task \notin DOMAIN tasks
                 /\ tasks'[runs'[options.run_id].task].state = "pending"
                 /\ \A t \in DOMAIN tasks : tasks'[t] = tasks[t]
            ELSE /\ ret'.raised
                 /\ runs' = runs
                 /\ tasks' = tasks]_vars

C2_Witness ==
    /\ ret.op = "try_start"
    /\ ret.raised = FALSE
    /\ ret.is_started
    /\ \E t \in DOMAIN tasks :
          /\ t < ret.run.task
          /\ tasks[t].options.run_id = ret.options.run_id
          /\ tasks[t].state = "done"
          /\ tasks[t].result[1].exit_code # Some(0)
    /\ runs[ret.options.run_id] = ret.run

\* C3: once the payload derived from a record reports succeeded or failed,
\* the payload derived from that same record reports the same status after
\* every step.
C3_TerminalStatusIsStable ==
    [][\A t \in DOMAIN tasks :
         (StatusOfRecord(t) \in Terminal /\ t \in DOMAIN tasks') =>
            StatusOfRecord(t)' = StatusOfRecord(t)]_vars

\* An old record reports failed while its replacement is running
C3_Witness ==
    \E t1, t2 \in DOMAIN tasks :
        /\ t1 < t2
        /\ tasks[t1].options.run_id = tasks[t2].options.run_id
        /\ StatusOfRecord(t1) = STR_failed
        /\ StatusOfRecord(t2) = STR_running
        /\ tasks[t2].sup = "training"

\* C4: at a restart, for every run whose live record reports succeeded or
\* failed, the payload get_status then builds from the files under the same
\* results root reports that same status.
C4_FilesAgreeWithLiveRecord ==
    [][Restart =>
         \A r \in RunIds, d \in Roots :
            (/\ runs[r].tracked
             /\ runs[r].options.results_directory = d
             /\ to_payload(runs[r]).status \in Terminal) =>
                (from_files(r, d).status)' = to_payload(runs[r]).status]_vars

\* C5: the payload of a tracked record is failed with the cancellation
\* message when the task was cancelled; when the task is done it is succeeded
\* exactly for exit code 0 without error, and otherwise failed with a message
\* (the error's text, or a note for the non-zero exit); otherwise running.
\* completed is true exactly when the status is not running.
C5_PayloadOfTrackedRecord ==
    (ret.op = "get_status" /\ runs[ret.run_id].tracked) =>
        LET task == tasks[runs[ret.run_id].task]
            p == ret.payload
        IN  /\ task.state = "cancelled" =>
                  /\ p.status = STR_failed
                  /\ p.message = Some(Msg("Training was canceled.", ""))
            /\ task.state = "done" =>
                  /\ p.status = STR_succeeded <=>
                        (task.result[1].exit_code = Some(0) /\ task.result[1].error = None)
                  /\ p.status # STR_succeeded =>
                        /\ p.status = STR_failed
                        /\ p.message # None
                        /\ task.result[1].error # None =>
                              p.message = Some(task.result[1].error[1].text)
            /\ task.state = "pending" => p.status = STR_running
            /\ p.completed <=> p.status # STR_running

\* C6: a get_status for a run id whose record's task is done returns the
\* run's terminal status (succeeded for exit code 0, failed otherwise) with
\* completed true.
C6_DoneTaskIsVisible ==
    (ret.op = "get_status" /\ Finished(ret.run_id)) =>
        LET returned == tasks[runs[ret.run_id].task].returned[1]
        IN  /\ ret.payload.completed
            /\ ret.payload.status =
                  (IF returned.exit_code = Some(0) THEN STR_succeeded ELSE STR_failed)
            /\ ret.payload.exit_code = returned.exit_code

C6_Witness ==
    /\ ret.op = "get_status"
    /\ Finished(ret.run_id)
    /\ ret.payload.status = STR_failed
    /\ ret.payload.exit_code = Some(1)

\* C7: every payload whose status is failed carries a message that is not
\* empty, from a live record and from the status file alike.
C7_FailedHasMessage ==
    (ret.op = "get_status" /\ ret.payload.status = STR_failed) =>
        /\ ret.payload.message # None
        /\ ret.payload.message[1].fmt # ""

\* C8: when try_start returns started, the new record's task has only been
\* scheduled: its payload says running, its supervisor has not begun and its
\* training process has been neither spawned nor waited for.
C8_StartedReturnsAtScheduling ==
    (ret.op = "try_start" /\ ret.raised = FALSE /\ ret.is_started) =>
        /\ runs[ret.options.run_id] = ret.run
        /\ to_payload(ret.run).status = STR_running
        /\ tasks[ret.run.task].state = "pending"
        /\ tasks[ret.run.task].sup = "unstarted"
        /\ tasks[ret.run.task].returned = None

C8_Witness ==
    /\ ret.op = "try_start"
    /\ ret.raised = FALSE
    /\ ret.is_started
    /\ to_payload(ret.run).status = STR_running

\* C9: the registry lock is free whenever a supervisor can take a step, and
\* while the run of one id is running (before its spawn, during its training
\* process, until its task is done) a try_start for another id that has no
\* active record can be taken and returns started.
C9_StartsOfOtherIdsProceed ==
    /\ lock = NoOwner
    /\ \A a, b \in RunIds :
          (/\ a # b
           /\ Active(a)
           /\ ~Active(b)
           /\ Len(tasks) < MaxTasks) =>
              \A d \in Roots :
                 ENABLED (/\ try_start(MkOptions(b, d), "ok")
                          /\ ret'.raised = FALSE
                          /\ ret'.is_started)

\* The second run was started while the first one's training process ran
C9_Witness ==
    \E a, b \in RunIds :
        /\ a # b
        /\ Active(a) /\ tasks[runs[a].task].sup = "training"
        /\ Active(b)
        /\ runs[a].task < runs[b].task
        /\ ret.op = "try_start" /\ ret.raised = FALSE /\ ret.is_started
        /\ ret.options.run_id = b

\* C10: for an untracked run id, get_status answers not-found, completed
\* false, when the run directory does not exist, and unknown, completed
\* false, when it exists and holds no training_status.json.
C10_UntrackedWithoutStatusFile ==
    (ret.op = "get_status" /\ ~runs[ret.run_id].tracked) =>
        LET d == fs[build_run_directory(ret.payload.results_directory, ret.run_id)]
        IN  /\ ~d.dir =>
                  (ret.payload.status = STR_not_found /\ ~ret.payload.completed)
            /\ (d.dir /\ ~d.status_file.exists) =>
                  (ret.payload.status = STR_unknown /\ ~ret.payload.completed)

C10_Witness ==
    /\ ret.op = "get_status"
    /\ ~runs[ret.run_id].tracked
    /\ fs[build_run_directory(ret.payload.results_directory, ret.run_id)].dir
    /\ ~fs[build_run_directory(ret.payload.results_directory, ret.run_id)].status_file.exists
    /\ ret.payload.status = STR_unknown

(***************************** status file contents ************************)
\* The specification of the file-backed status: a registry that tracks
\* nothing, one run directory holding a training_status.json of any of the
\* contents below, and get_status as the only step.

STR_aborted == <<"a","b","o","r","t","e","d">>
STR_succes == <<"s","u","c","c","e","s">>

UpperChar(c) ==
    IF \E i \in DOMAIN LowerCase : LowerCase[i] = c
    THEN UpperCase[CHOOSE i \in DOMAIN LowerCase : LowerCase[i] = c]
    ELSE c

\* Every spelling of the lower-case word w in upper and lower case letters
CaseVariants(w) ==
    {[i \in DOMAIN w |-> IF m[i] THEN UpperChar(w[i]) ELSE w[i]] :
        m \in [DOMAIN w -> BOOLEAN]}

RecognizedWords == {STR_success, STR_succeeded, STR_completed, STR_failure, STR_failed}

StatusTexts ==
    UNION {CaseVariants(w) : w \in RecognizedWords}
        \cup {STR_aborted, STR_succes, STR_running, <<>>}

AllStatusDocs == {JsonStatus(s) : s \in StatusTexts} \cup {JsonNoStatus, NotJson}

StatusInit ==
    /\ NoSessions
    /\ runs = [r \in RunIds |-> NoRun]
    /\ tasks = <<>>
    /\ lock = NoOwner
    /\ ret = NoRet
    /\ \E target \in RunDirs, doc \in AllStatusDocs :
          fs = [d \in RunDirs |->
                  IF d = target
                  THEN [dir |-> TRUE, metadata |-> NoFile, status_file |-> doc]
                  ELSE NoDir]

StatusNext == GetStatus

StatusSpec == StatusInit /\ [][StatusNext]_vars

\* s spells the lower-case word w, letter by letter, in any case
SpellsIgnoringCase(s, w) ==
    /\ Len(s) = Len(w)
    /\ \A i \in DOMAIN w :
          \/ s[i] = w[i]
          \/ \E k \in DOMAIN LowerCase : LowerCase[k] = w[i] /\ UpperCase[k] = s[i]

\* The status file get_status has just answered an untracked run id from
AnsweredFromFile ==
    /\ ret.op = "get_status"
    /\ ~runs[ret.run_id].tracked
    /\ fs[build_run_directory(ret.payload.results_directory, ret.run_id)].status_file.exists

AnsweredFile ==
    fs[build_run_directory(ret.payload.results_directory, ret.run_id)].status_file

\* C11: for an untracked run id whose training_status.json is an object with
\* the status string s, get_status reports succeeded when s spells success,
\* succeeded or completed in any case, and failed when s spells failure or
\* failed in any case.
C11_StatusIsNormalized ==
    (AnsweredFromFile /\ AnsweredFile.json = "object" /\ AnsweredFile.status # None) =>
        LET s == AnsweredFile.status[1]
        IN  /\ (\E w \in {STR_success, STR_succeeded, STR_completed} :
                    SpellsIgnoringCase(s, w)) => ret.payload.status = STR_succeeded
            /\ (\E w \in {STR_failure, STR_failed} :
                    SpellsIgnoringCase(s, w)) => ret.payload.status = STR_failed

C11_Witness ==
    /\ AnsweredFromFile
    /\ AnsweredFile = JsonStatus(<<"c","O","m","P","l","E","t","E","d">>)
    /\ ret.payload.status = STR_succeeded

\* C12: whenever the training_status.json of an untracked run id exists, the
\* payload get_status builds from it has the status succeeded or failed,
\* whatever the file holds.
C12_FileStatusIsTerminal ==
    AnsweredFromFile => ret.payload.status \in Terminal

(***************************** run metadata ********************************)
\* Paths of environment executables, as the characters of the path
PATH_game_EXE == <<"g",".","E","X","E">>
PATH_game_sh == <<"g",".","s","h">>
PATH_gone_exe == <<"x",".","e","x","e">>
STR_dot_exe == <<".","e","x","e">>
STR_null == <<"<","n","u","l","l",">">>

\* The paths os.path.isfile answers True for
ExistingFiles == {PATH_game_EXE, PATH_game_sh}

\* The envPath values of the stored metadata: null, a file ending in .EXE,
\* a file without the extension, and a .exe path with no file behind it
EnvPaths == {None, Some(PATH_game_EXE), Some(PATH_game_sh), Some(PATH_gone_exe)}

\* str.endswith
endswith(s, suffix) ==
    /\ Len(s) >= Len(suffix)
    /\ SubSeq(s, Len(s) - Len(suffix) + 1, Len(s)) = suffix

\* TrainingOptions for a run with an environment executable
OptionsWithEnv(run_id, results_directory, env_executable_path) ==
    [MkOptions(run_id, results_directory) EXCEPT
        !.env_executable_path = env_executable_path]

RequiredKeys == {"configPath", "runId", "resultsDirectory", "condaEnvironmentName"}
OptionalKeys == {"envPath", "basePort", "noGraphics", "skipConda", "launchTensorboard"}

\* A metadata document that holds only the keys `keys` of the document doc
OnlyKeys(doc, keys) ==
    [doc EXCEPT !.payload = [k \in (DOMAIN doc.payload) \cap keys |-> doc.payload[k]]]

\* run_metadata.json holding JSON that is no object (an array)
ArrayDocument == [exists |-> TRUE, json |-> "array"]

\* dict.get(key, default)
payload_get(payload, key, default) ==
    IF key \in DOMAIN payload THEN payload[key] ELSE default

TrainingRunMetadata(env_path, config_path, run_id, results_directory, conda_environment_name, base_port, no_graphics, skip_conda, launch_tensorboard) ==
    [env_path |-> env_path, config_path |-> config_path, run_id |-> run_id,
     results_directory |-> results_directory,
     conda_environment_name |-> conda_environment_name, base_port |-> base_port,
     no_graphics |-> no_graphics, skip_conda |-> skip_conda,
     launch_tensorboard |-> launch_tensorboard]

Loaded(value) == [raised |-> FALSE, value |-> value]
LoadRaised(error) == [raised |-> TRUE, error |-> error]

\* try_load reading a missing required key as null
try_load_lenient(doc) ==
    IF ~doc.exists \/ doc.json = "malformed" THEN Loaded(None)
    ELSE IF doc.json # "object" THEN LoadRaised("AttributeError")
    ELSE LET payload == doc.payload
         IN  Loaded(Some(TrainingRunMetadata(
                 payload_get(payload, "envPath", None),
                 payload_get(payload, "configPath", None),
                 payload_get(payload, "runId", None),
                 payload_get(payload, "resultsDirectory", None),
                 payload_get(payload, "condaEnvironmentName", None),
                 payload_get(payload, "basePort", None),
                 payload_get(payload, "noGraphics", FALSE),
                 payload_get(payload, "skipConda", FALSE),
                 payload_get(payload, "launchTensorboard", FALSE))))

\* TrainingRunMetadata.try_load on the content of run_metadata.json: the
\* metadata, None, or the exception the `except` clause does not catch.
\* payload.get("envPath") is evaluated first and raises AttributeError when
\* the JSON is no object; payload[key] raises KeyError for a missing key.
try_load(doc) ==
    IF ~doc.exists THEN Loaded(None)
    ELSE IF doc.json = "malformed" THEN Loaded(None)
    ELSE IF doc.json # "object" THEN LoadRaised("AttributeError")
    ELSE LET payload == doc.payload
         IN  IF ~(RequiredKeys \subseteq DOMAIN payload) THEN Loaded(None)
             ELSE Loaded(Some(TrainingRunMetadata(
                     payload_get(payload, "envPath", None),
                     payload["configPath"],
                     payload["runId"],
                     payload["resultsDirectory"],
                     payload["condaEnvironmentName"],
                     payload_get(payload, "basePort", None),
                     payload_get(payload, "noGraphics", FALSE),
                     payload_get(payload, "skipConda", FALSE),
                     payload_get(payload, "launchTensorboard", FALSE))))

\* A to_options that does not carry the TensorBoard flag over
to_options_without_tensorboard(metadata) ==
    [env_executable_path |-> metadata.env_path,
     trainer_config_path |-> metadata.config_path,
     run_id |-> metadata.run_id,
     results_directory |-> metadata.results_directory,
     conda_environment_name |-> metadata.conda_environment_name,
     base_port |-> metadata.base_port,
     no_graphics |-> metadata.no_graphics,
     skip_conda |-> metadata.skip_conda,
     launch_tensorboard |-> FALSE]

to_options(metadata) ==
    [env_executable_path |-> metadata.env_path,
     trainer_config_path |-> metadata.config_path,
     run_id |-> metadata.run_id,
     results_directory |-> metadata.results_directory,
     conda_environment_name |-> metadata.conda_environment_name,
     base_port |-> metadata.base_port,
     no_graphics |-> metadata.no_graphics,
     skip_conda |-> metadata.skip_conda,
     launch_tensorboard |-> metadata.launch_tensorboard]

\* The specification of try_load: a run directory whose run_metadata.json is
\* missing, is not JSON, is a JSON array, or is a JSON object with any subset
\* of the nine keys save writes; try_load is the only step.
FullOptions ==
    [OptionsWithEnv("a", DEFAULT_RESULTS_DIRECTORY, Some(PATH_game_EXE)) EXCEPT
        !.base_port = Some(5005), !.no_graphics = TRUE, !.skip_conda = TRUE,
        !.launch_tensorboard = TRUE]

AllMetadataDocs ==
    {NoFile, TruncatedDocument, ArrayDocument}
        \cup {OnlyKeys(MetadataDocument(FullOptions), keys) :
                keys \in SUBSET (RequiredKeys \cup OptionalKeys)}

LoadMetadata(run_directory) ==
    /\ UNCHANGED session_vars
    /\ ret' = [op |-> "try_load", run_directory |-> run_directory,
               result |-> try_load(fs[run_directory].metadata)]
    /\ UNCHANGED <<runs, tasks, fs, lock>>

TryLoad == \E run_directory \in RunDirs : LoadMetadata(run_directory)

MetadataInit ==
    /\ NoSessions
    /\ runs = [r \in RunIds |-> NoRun]
    /\ tasks = <<>>
    /\ lock = NoOwner
    /\ ret = NoRet
    /\ \E target \in RunDirs, doc \in AllMetadataDocs :
          fs = [d \in RunDirs |->
                  IF d = target
                  THEN [dir |-> TRUE, metadata |-> doc, status_file |-> NoFile]
                  ELSE NoDir]

MetadataNext == TryLoad

MetadataSpec == MetadataInit /\ [][MetadataNext]_vars

try_start_on(runs_, tasks_, fs_, options, io) ==
    LET existing == runs_[options.run_id]
        run_directory == build_run_directory(options.results_directory, options.run_id)
        saved == [fs_ EXCEPT ![run_directory] =
                        SavedRunDirectory(fs_[run_directory], options, io)]
        state == TrainingRunState(options, log_path_of(options),
                     runner_tensorboard_url(options), Len(tasks_) + 1)
    IN  IF existing.tracked /\ ~task_done(tasks_[existing.task])
        THEN [runs |-> runs_, tasks |-> tasks_, fs |-> fs_,
              result |-> TrainingStartResult(options, FALSE, existing,
                             Some(Msg("Training run '{}' is already in progress.",
                                      options.run_id)))]
        ELSE IF io = "ok"
        THEN [runs |-> [runs_ EXCEPT ![options.run_id] = state],
              tasks |-> Append(tasks_, CreatedTask(options)),
              fs |-> saved,
              result |-> TrainingStartResult(options, TRUE, state, None)]
        ELSE [runs |-> runs_, tasks |-> tasks_, fs |-> saved,
              result |-> Raised("try_start", options, "OSError")]

\* The negation of `not env_path or not os.path.isfile(env_path) or not
\* env_path.lower().endswith(".exe")`
env_is_resumable(env_path) ==
    /\ env_path # None
    /\ env_path[1] # <<>>
    /\ env_path[1] \in ExistingFiles
    /\ endswith(str_lower(env_path[1]), STR_dot_exe)

\* A message of the pass: the format, the run id and the second value
ResumeMsg(fmt, run_id, detail) == [fmt |-> fmt, run_id |-> run_id, detail |-> detail]

\* The pass before its first entry
PassStart ==
    [runs |-> runs, tasks |-> tasks, fs |-> fs, messages |-> <<>>,
     calls |-> <<>>, raised |-> FALSE, error |-> None]

\* The body of the `for run_directory in ...iterdir()` loop on one entry.
\* calls records each try_start the pass makes; a pass that raises keeps the
\* messages appended up to the raise.
resume_entry(st, run_directory, io) ==
    LET results_dir == run_directory[1]
        run_id == run_directory[2]
        status == _try_read_status(
                      st.fs[build_run_directory(results_dir, run_id)].status_file)
        loaded == try_load(st.fs[run_directory].metadata)
    IN  IF ~st.fs[run_directory].dir THEN st
        ELSE IF _is_completed_status(status) THEN st
        ELSE IF loaded.raised
        THEN [st EXCEPT !.raised = TRUE, !.error = Some(loaded.error)]
        ELSE IF loaded.value = None
        THEN [st EXCEPT !.messages = Append(@,
                 ResumeMsg("Skipped '{}' because run_metadata.json is missing or unreadable.",
                           run_id, <<>>))]
        ELSE LET metadata == loaded.value[1]
                 env_path == metadata.env_path
             IN  IF ~env_is_resumable(env_path)
                 THEN [st EXCEPT !.messages = Append(@,
                          ResumeMsg("Skipped '{}' because envPath is missing or not a valid .exe ({}).",
                                    run_id,
                                    IF env_path = None \/ env_path[1] = <<>>
                                    THEN STR_null ELSE env_path[1]))]
                 ELSE LET start == try_start_on(st.runs, st.tasks, st.fs,
                                                to_options(metadata), io)
                          start_result == start.result
                          call == [run_directory |-> run_directory,
                                   options |-> to_options(metadata),
                                   result |-> start_result]
                          status_label == str_lower(IF status = None \/ status[1] = <<>>
                                                    THEN STR_unknown ELSE status[1])
                      IN  IF start_result.raised
                          THEN [st EXCEPT !.fs = start.fs,
                                          !.calls = Append(@, call),
                                          !.raised = TRUE,
                                          !.error = Some(start_result.error)]
                          ELSE [st EXCEPT
                                  !.runs = start.runs,
                                  !.tasks = start.tasks,
                                  !.fs = start.fs,
                                  !.calls = Append(@, call),
                                  !.messages = Append(@,
                                      IF start_result.is_started
                                      THEN ResumeMsg("Resumed unfinished training '{}' (previous status: {}).",
                                                     run_id, status_label)
                                      ELSE start_result.message[1])]

\* The loop over the entries in the order iterdir() yields them; an
\* exception ends it
RECURSIVE resume_loop(_, _, _)
resume_loop(st, order, ios) ==
    IF order = <<>> \/ st.raised THEN st
    ELSE resume_loop(resume_entry(st, Head(order), ios[Head(order)]), Tail(order), ios)

\* The orders iterdir() can yield the entries of results_dir in
ScanOrders(results_dir) ==
    LET entries == {d \in RunDirs : d[1] = results_dir}
    IN  {order \in [1..Cardinality(entries) -> entries] :
            \A i, j \in DOMAIN order : order[i] = order[j] => i = j}

\* What os.path.isdir(results_dir) can answer: True when the directory holds
\* a run directory, and either answer when it holds none
isdir_results(results_dir) ==
    IF \E d \in RunDirs : d[1] = results_dir /\ fs[d].dir
    THEN {TRUE} ELSE BOOLEAN

\* How the file system answers the try_start calls of one pass
ResumeIoOutcomes == {"ok", "write_fails"}

ResumeReturn(st) ==
    [op |-> "resume", raised |-> st.raised, error |-> st.error,
     messages |-> st.messages, calls |-> st.calls]

resume_unfinished_runs(results_dir_override, order, ios, results_isdir) ==
    /\ UNCHANGED session_vars
    /\ lock = NoOwner
    /\ LET results_dir == _resolve_results_directory(results_dir_override)
       IN  IF ~results_isdir
           THEN /\ ret' = ResumeReturn([PassStart EXCEPT !.messages =
                             <<ResumeMsg("Results directory '{}' does not exist. Nothing to resume.",
                                         results_dir, <<>>)>>])
                /\ UNCHANGED <<runs, tasks, fs, lock>>
           ELSE LET end == resume_loop(PassStart, order, ios)
                IN  /\ Len(end.tasks) <= MaxTasks
                    /\ runs' = end.runs
                    /\ tasks' = end.tasks
                    /\ fs' = end.fs
                    /\ ret' = ResumeReturn(end)
                    /\ UNCHANGED lock

Resume ==
    \E ov \in Overrides, ios \in [RunDirs -> ResumeIoOutcomes] :
        \E order \in ScanOrders(_resolve_results_directory(ov)),
           results_isdir \in isdir_results(_resolve_results_directory(ov)) :
            resume_unfinished_runs(ov, order, ios, results_isdir)

\* The specification of recovery: a host that has just been started, over a
\* results directory whose run directories hold any of the contents below.
\* A run directory's metadata names its own run id, or the other one.
MetadataContents(run_directory) ==
    LET own(env) == MetadataDocument(OptionsWithEnv(run_directory[2], run_directory[1], env))
    IN  {NoFile, TruncatedDocument, ArrayDocument,
         OnlyKeys(own(Some(PATH_game_EXE)), (RequiredKeys \cup OptionalKeys) \ {"runId"})}
            \cup {own(env) : env \in EnvPaths}
            \cup {MetadataDocument(OptionsWithEnv(r, run_directory[1], Some(PATH_game_EXE))) :
                    r \in RunIds \ {run_directory[2]}}

StatusContents ==
    {NoFile, NotJson, JsonStatus(STR_Success), JsonStatus(STR_FAILED), JsonStatus(STR_aborted)}

DirContents(run_directory) ==
    {NoDir} \cup {[dir |-> TRUE, metadata |-> m, status_file |-> s] :
                    m \in MetadataContents(run_directory), s \in StatusContents}

RecoveryInit ==
    /\ NoSessions
    /\ runs = [r \in RunIds |-> NoRun]
    /\ tasks = <<>>
    /\ lock = NoOwner
    /\ ret = NoRet
    /\ fs \in [RunDirs -> UNION {DirContents(d) : d \in RunDirs}]
    /\ \A d \in RunDirs : fs[d] \in DirContents(d)

RecoveryNext ==
    \/ Resume
    \/ GetStatus

RecoverySpec == RecoveryInit /\ [][RecoveryNext]_vars

(***************************** claims on recovery ***************************)
\* The document of a training_status.json spells one of the five terminal
\* words, in any case
HoldsTerminalStatus(doc) ==
    /\ doc.exists
    /\ doc.json = "object"
    /\ doc.status # None
    /\ \E w \in RecognizedWords : SpellsIgnoringCase(doc.status[1], w)

\* The metadata of the run directory is an object with the four required keys
HasLoadableMetadata(d) ==
    /\ fs[d].metadata.exists
    /\ fs[d].metadata.json = "object"
    /\ RequiredKeys \subseteq DOMAIN fs[d].metadata.payload

\* The metadata of the run directory records an existing file ending in .exe
HasValidExecutable(d) ==
    /\ HasLoadableMetadata(d)
    /\ "envPath" \in DOMAIN fs[d].metadata.payload
    /\ fs[d].metadata.payload.envPath = Some(PATH_game_EXE)

\* A run directory the pass is to hand to try_start
Eligible(d) ==
    /\ fs[d].dir
    /\ ~HoldsTerminalStatus(fs[d].status_file)
    /\ HasValidExecutable(d)

\* A run directory the pass is to skip with a message: no terminal status,
\* and no metadata file or no valid executable in the metadata
Unresumable(d) ==
    /\ fs[d].dir
    /\ ~HoldsTerminalStatus(fs[d].status_file)
    /\ \/ ~fs[d].metadata.exists
       \/ HasLoadableMetadata(d) /\ ~HasValidExecutable(d)

SkipFormats ==
    {"Skipped '{}' because run_metadata.json is missing or unreadable.",
     "Skipped '{}' because envPath is missing or not a valid .exe ({})."}

\* The positions of the skip messages for run id r in a pass's messages
SkipsOf(messages, r) ==
    {i \in DOMAIN messages : messages[i].fmt \in SkipFormats /\ messages[i].run_id = r}

\* The try_start calls a pass made for the scanned run directory d
CallsFor(calls, d) == {i \in DOMAIN calls : calls[i].run_directory = d}

\* C13: whatever the results root holds, and whether or not a try_start of
\* the pass fails, resume_unfinished_runs returns without raising and hands
\* every eligible run directory to try_start.
C13_OneBadRunNeverBlocksRecovery ==
    [][ret'.op = "resume" =>
         /\ ~ret'.raised
         /\ \A d \in RunDirs : Eligible(d) => CallsFor(ret'.calls, d) # {}]_vars

C15_UnresumableRunsAreSkipped ==
    [][ret'.op = "resume" =>
         \A d \in RunDirs :
            Unresumable(d) =>
               /\ CallsFor(ret'.calls, d) = {}
               /\ Cardinality(SkipsOf(ret'.messages, d[2])) = 1
               /\ ~ret'.raised]_vars

\* C16: a get_status that follows a pass which skipped run id r, with r
\* still untracked, reports not-found or unknown with completed false.
C16_SkippedRunStaysUnknown ==
    [][\A r \in RunIds :
         (/\ ret.op = "resume"
          /\ SkipsOf(ret.messages, r) # {}
          /\ ~runs[r].tracked
          /\ ret'.op = "get_status"
          /\ ret'.run_id = r) =>
            /\ ret'.payload.status \in {STR_not_found, STR_unknown}
            /\ ~ret'.payload.completed]_vars

(***************************** claims on the metadata file ******************)
\* The run directory of the run that task t trains
RunDirectoryOf(t) ==
    build_run_directory(tasks[t].options.results_directory, tasks[t].options.run_id)

\* C17: at the step in which the supervisor of a run spawns the training
\* process, the run's run_metadata.json holds the complete document of the
\* run's options.
C17_MetadataWrittenBeforeSpawn ==
    [][\A t \in DOMAIN tasks :
         SpawnTraining(t) =>
            fs[RunDirectoryOf(t)].metadata = MetadataDocument(tasks[t].options)]_vars

C17_Witness ==
    \E t \in DOMAIN tasks :
        /\ tasks[t].sup = "training"
        /\ fs[RunDirectoryOf(t)].metadata = MetadataDocument(tasks[t].options)

\* C18: the run_metadata.json of a run directory changes only in a step that
\* is a try_start for the directory's run id returning started.
C18_MetadataChangesOnlyAtStart ==
    [][\A d \in RunDirs :
         fs'[d].metadata # fs[d].metadata =>
            /\ ret'.op = "try_start"
            /\ ~ret'.raised
            /\ ret'.is_started
            /\ build_run_directory(ret'.options.results_directory,
                                   ret'.options.run_id) = d]_vars

\* C19: in every state the run_metadata.json of every run directory is
\* missing or holds a complete document written by save.
C19_MetadataIsNeverPartial ==
    \A d \in RunDirs :
        \/ ~fs[d].metadata.exists
        \/ \E options \in AllOptions : fs[d].metadata = MetadataDocument(options)

(***************************** claims on the run's outcome ******************)
\* C24: the supervisor of a task never goes back to before its spawn once
\* the training process has been spawned or the spawn has failed, so each
\* task spawns at most once; the outcome _run_sync hands back and the
\* result of the task are set once and never change; a done task has one.
C24_OneInvocationOneOutcome ==
    [][\A t \in DOMAIN tasks :
         t \in DOMAIN tasks' =>
            /\ tasks[t].sup \in {"training", "returned"} =>
                  tasks'[t].sup \in {"training", "returned"}
            /\ tasks[t].sup = "training" => ~SpawnTraining(t)
            /\ tasks[t].returned # None => tasks'[t].returned = tasks[t].returned
            /\ tasks[t].result # None => tasks'[t].result = tasks[t].result
            /\ tasks'[t].returned # None => tasks'[t].sup = "returned"
            /\ tasks'[t].state = "done" =>
                  /\ tasks'[t].result # None
                  /\ tasks'[t].result = tasks'[t].returned]_vars

C24_Witness ==
    \E t \in DOMAIN tasks :
        /\ tasks[t].state = "done"
        /\ tasks[t].sup = "returned"
        /\ tasks[t].result = Some(from_exit_code(1))

\* C25: no task ends by raising; a task is done with an outcome that has the
\* error and no exit code (the spawn failed) or the exit code and no error
\* (the process exited); try_start raises nothing but the error of its own
\* file writes; and a get_status answered from the record of a run whose
\* spawn failed or whose process exited with a code other than zero reports
\* failed, completed.
C25_FailuresAreCapturedInTheOutcome ==
    /\ \A t \in DOMAIN tasks :
          /\ tasks[t].state \notin {"raised", "cancelled"}
          /\ tasks[t].state = "done" =>
                /\ tasks[t].result # None
                /\ \/ tasks[t].result[1].error # None /\ tasks[t].result[1].exit_code = None
                   \/ tasks[t].result[1].error = None /\ tasks[t].result[1].exit_code # None
    /\ (ret.op = "try_start" /\ ret.raised) => ret.error = "OSError"
    /\ (ret.op = "get_status" /\ runs[ret.run_id].tracked
            /\ tasks[runs[ret.run_id].task].state = "done") =>
          LET outcome == tasks[runs[ret.run_id].task].result[1]
          IN  (outcome.error # None \/ outcome.exit_code # Some(0)) =>
                 /\ ret.payload.status = STR_failed
                 /\ ret.payload.completed

C25_Witness ==
    /\ ret.op = "get_status"
    /\ runs[ret.run_id].tracked
    /\ tasks[runs[ret.run_id].task].state = "done"
    /\ tasks[runs[ret.run_id].task].result = Some(from_error(SpawnError))
    /\ ret.payload.status = STR_failed

(***************************** outcomes *************************************)
\* The specification of is_success: any TrainingRunOutcome the dataclass
\* can hold, with or without an exit code and with or without an error.
MaxExitCode == 16

AllOutcomes ==
    {TrainingRunOutcome(exit_code, error) :
        exit_code \in {None} \cup {Some(c) : c \in -MaxExitCode..MaxExitCode},
        error \in {None} \cup {Some(e) : e \in Errors}}

IsSuccess ==
    /\ UNCHANGED session_vars
    /\ ret.op = "outcome"
    /\ ret' = [op |-> "is_success", outcome |-> ret.outcome,
               value |-> is_success(ret.outcome)]
    /\ UNCHANGED <<runs, tasks, fs, lock>>

OutcomeInit ==
    /\ NoSessions
    /\ runs = [r \in RunIds |-> NoRun]
    /\ tasks = <<>>
    /\ fs = [d \in RunDirs |-> NoDir]
    /\ lock = NoOwner
    /\ \E outcome \in AllOutcomes : ret = [op |-> "outcome", outcome |-> outcome]

OutcomeNext == IsSuccess

OutcomeSpec == OutcomeInit /\ [][OutcomeNext]_vars

\* C28: for every outcome, is_success is true exactly when the outcome has
\* no error and its exit code is zero.
C28_SuccessIffNoErrorAndExitZero ==
    ret.op = "is_success" =>
        (ret.value <=> (ret.outcome.error = None /\ ret.outcome.exit_code = Some(0)))

(***************************** claims on the resumed runs *******************)
\* The options try_load and to_options recover from the metadata of d
RecoveredOptions(d) == to_options(try_load(fs[d].metadata).value[1])

\* The positions in a pass's messages of the message m
PositionsOf(messages, m) == {k \in DOMAIN messages : messages[k] = m}

\* C29: a pass hands every eligible run directory to try_start exactly once,
\* with the options recovered from its metadata; it appends exactly one
\* message for it, the resumed message when try_start started the run and
\* the conflict message otherwise; and after the pass the run is tracked.
C29_EligibleRunsAreResumedOnce ==
    [][ret'.op = "resume" =>
         \A d \in RunDirs :
            Eligible(d) =>
               /\ Cardinality(CallsFor(ret'.calls, d)) = 1
               /\ LET call == ret'.calls[CHOOSE i \in CallsFor(ret'.calls, d) : TRUE]
                      status == _try_read_status(fs[d].status_file)
                      label == str_lower(IF status = None \/ status[1] = <<>>
                                         THEN STR_unknown ELSE status[1])
                  IN  /\ call.options = RecoveredOptions(d)
                      /\ ~call.result.raised
                      /\ Cardinality(PositionsOf(ret'.messages,
                            IF call.result.is_started
                            THEN ResumeMsg("Resumed unfinished training '{}' (previous status: {}).",
                                           d[2], label)
                            ELSE call.result.message[1])) = 1
               /\ ~ret'.raised
               /\ runs'[d[2]].tracked]_vars

(***************************** the supervisor *******************************)
\* TrainingSessionRunner in detail: the constructor's look at the TensorBoard
\* port, and _run_sync step by step with the processes it starts.

\* One host constructs at most one runner per run id; the values uuid4
\* draws from
MaxSessions == Cardinality(RunIds)
UUIDs == {"u1", "u2"}

\* The options of a run that asks for TensorBoard or does not
SessionOptions ==
    {[MkOptions(r, DEFAULT_RESULTS_DIRECTORY) EXCEPT !.launch_tensorboard = b] :
        r \in RunIds, b \in BOOLEAN}

ExternalListens == [by |-> "external"]
ProcessListens(pid) == [by |-> "process", pid |-> pid]

\* _is_port_in_use: a connection to the port is accepted
_is_port_in_use == listener.by # "nobody"

\* _determine_tensorboard_port: the port, and _reuse_existing_tensorboard
_determine_tensorboard_port(explicit_port, in_use) ==
    [port |-> IF explicit_port = None THEN DEFAULT_TENSORBOARD_PORT ELSE explicit_port[1],
     reuse |-> in_use]

\* TrainingSessionRunner.__init__(options, log_path) with the port in use or not
TrainingSessionRunner(options, in_use) ==
    LET determined == _determine_tensorboard_port(None, in_use)
    IN  [options |-> options,
         _tensorboard_port |-> IF options.launch_tensorboard
                               THEN Some(determined.port) ELSE None,
         _reuse_existing_tensorboard |-> options.launch_tensorboard /\ determined.reuse,
         pc |-> "constructed",
         temp_env_dir |-> None,
         tensorboard_process |-> None,
         process |-> None,
         exit_code |-> None,
         raised_by |-> "nothing",
         result |-> None]

\* The tensorboard_url property: the port stands for http://localhost:<port>
tensorboard_url(session) == session._tensorboard_port

_should_launch_tensorboard(session) ==
    /\ session.options.launch_tensorboard
    /\ ~session._reuse_existing_tensorboard
    /\ session._tensorboard_port # None

\* A scratch directory that does not depend on the uuid
_create_shared_temp_dir(uuid) == <<"mentor-cli">>

\* _create_isolated_temp_dir: <tempdir>/mentor-cli/<uuid4().hex>
_create_isolated_temp_dir(uuid) == <<"mentor-cli", uuid>>

Process(kind, owner) ==
    [kind |-> kind, owner |-> owner, state |-> "running",
     terminate_requested |-> FALSE, exit_code |-> None]

\* start_new constructs the runner of a run whose id no other runner has
NewRunner(options) ==
    /\ Len(sessions) < MaxSessions
    /\ \A i \in DOMAIN sessions : sessions[i].options.run_id # options.run_id
    /\ sessions' = Append(sessions, TrainingSessionRunner(options, _is_port_in_use))
    /\ UNCHANGED <<procs, listener, issued, streams, log, log_open>>
    /\ UNCHANGED store_vars

\* _run_sync starts in the executor: makedirs and the scratch directory.
\* uuid4 returns a value it has not returned before.
RunSyncBegins(i, uuid) ==
    /\ sessions[i].pc = "constructed"
    /\ uuid \notin issued
    /\ issued' = issued \cup {uuid}
    /\ sessions' = [sessions EXCEPT ![i].pc = "started",
                                    ![i].temp_env_dir = Some(_create_isolated_temp_dir(uuid))]
    /\ UNCHANGED <<procs, listener, streams, log, log_open>>
    /\ UNCHANGED store_vars

\* _start_process(tensorboard_command): the process runs, and listens on
\* the port when nobody does
StartTensorboard(i) ==
    /\ sessions[i].pc = "started"
    /\ _should_launch_tensorboard(sessions[i])
    /\ procs' = Append(procs, Process("tensorboard", i))
    /\ listener' = IF listener.by = "nobody" THEN ProcessListens(Len(procs) + 1)
                   ELSE listener
    /\ sessions' = [sessions EXCEPT ![i].pc = "monitor_handled",
                                    ![i].tensorboard_process = Some(Len(procs) + 1)]
    /\ UNCHANGED <<issued, streams, log, log_open>>
    /\ UNCHANGED store_vars

\* _start_process(tensorboard_command) raises: _run_sync raises, and
\* _execute turns the error into the outcome
StartTensorboardFails(i) ==
    /\ sessions[i].pc = "started"
    /\ _should_launch_tensorboard(sessions[i])
    /\ sessions' = [sessions EXCEPT ![i].pc = "finished",
                                    ![i].raised_by = "tensorboard",
                                    ![i].result = Some(from_error(SpawnError))]
    /\ UNCHANGED <<procs, listener, issued, streams, log, log_open>>
    /\ UNCHANGED store_vars

\* tensorboard_command is None: nothing is launched
SkipTensorboard(i) ==
    /\ sessions[i].pc = "started"
    /\ ~_should_launch_tensorboard(sessions[i])
    /\ sessions' = [sessions EXCEPT ![i].pc = "monitor_handled"]
    /\ UNCHANGED <<procs, listener, issued, streams, log, log_open>>
    /\ UNCHANGED store_vars

\* process = _start_process(training_command)
StartTraining(i) ==
    /\ sessions[i].pc = "monitor_handled"
    /\ procs' = Append(procs, Process("training", i))
    /\ sessions' = [sessions EXCEPT ![i].pc = "waiting",
                                    ![i].process = Some(Len(procs) + 1)]
    /\ UNCHANGED <<listener, issued, streams, log, log_open>>
    /\ UNCHANGED store_vars

\* _start_process(training_command) raises
StartTrainingFails(i) ==
    /\ sessions[i].pc = "monitor_handled"
    /\ sessions' = [sessions EXCEPT ![i].pc = "finished",
                                    ![i].raised_by = "training",
                                    ![i].result = Some(from_error(SpawnError))]
    /\ UNCHANGED <<procs, listener, issued, streams, log, log_open>>
    /\ UNCHANGED store_vars

\* A process exits, on its own or after terminate(); its port is free again
ProcessExits(p, exit_code) ==
    /\ procs[p].state = "running"
    /\ procs' = [procs EXCEPT ![p].state = "exited", ![p].exit_code = Some(exit_code)]
    /\ listener' = IF listener = ProcessListens(p) THEN NobodyListens ELSE listener
    /\ UNCHANGED <<sessions, issued, streams, log, log_open>>
    /\ UNCHANGED store_vars

\* process.wait() returns; the readers are joined for 0.1 s each
WaitReturns(i) ==
    /\ sessions[i].pc = "waiting"
    /\ procs[sessions[i].process[1]].state = "exited"
    /\ sessions' = [sessions EXCEPT ![i].pc = "training_done",
                                    ![i].exit_code = procs[sessions[i].process[1]].exit_code]
    /\ UNCHANGED <<procs, listener, issued, streams, log, log_open>>
    /\ UNCHANGED store_vars

\* `if tensorboard_process and tensorboard_process.poll() is None`:
\* _terminate_process, which swallows the OSError of a terminate() that
\* does not reach the process
TerminateTensorboard(i, delivered) ==
    /\ sessions[i].pc = "training_done"
    /\ sessions[i].tensorboard_process # None
    /\ procs[sessions[i].tensorboard_process[1]].state = "running"
    /\ procs' = [procs EXCEPT ![sessions[i].tensorboard_process[1]].terminate_requested =
                                  delivered]
    /\ sessions' = [sessions EXCEPT ![i].pc = "terminate_handled"]
    /\ UNCHANGED <<listener, issued, streams, log, log_open>>
    /\ UNCHANGED store_vars

\* No TensorBoard of its own, or it has exited already
SkipTerminate(i) ==
    /\ sessions[i].pc = "training_done"
    /\ IF sessions[i].tensorboard_process = None THEN TRUE
       ELSE procs[sessions[i].tensorboard_process[1]].state = "exited"
    /\ sessions' = [sessions EXCEPT ![i].pc = "terminate_handled"]
    /\ UNCHANGED <<procs, listener, issued, streams, log, log_open>>
    /\ UNCHANGED store_vars

\* `if tensorboard_process: tensorboard_process.wait()`, which has no
\* timeout, and `return exit_code`
RunSyncReturns(i) ==
    /\ sessions[i].pc = "terminate_handled"
    /\ IF sessions[i].tensorboard_process = None THEN TRUE
       ELSE procs[sessions[i].tensorboard_process[1]].state = "exited"
    /\ sessions' = [sessions EXCEPT ![i].pc = "finished",
                                    ![i].result = Some(from_exit_code(sessions[i].exit_code[1]))]
    /\ UNCHANGED <<procs, listener, issued, streams, log, log_open>>
    /\ UNCHANGED store_vars

\* Somebody else starts or stops a TensorBoard on the port
ExternalMonitorStarts ==
    /\ listener.by = "nobody"
    /\ listener' = ExternalListens
    /\ UNCHANGED <<sessions, procs, issued, streams, log, log_open>>
    /\ UNCHANGED store_vars

ExternalMonitorStops ==
    /\ listener.by = "external"
    /\ listener' = NobodyListens
    /\ UNCHANGED <<sessions, procs, issued, streams, log, log_open>>
    /\ UNCHANGED store_vars

\* The registry is not used by the runners
StoreIdle ==
    /\ runs = [r \in RunIds |-> NoRun]
    /\ tasks = <<>>
    /\ fs = [d \in RunDirs |-> NoDir]
    /\ lock = NoOwner
    /\ ret = NoRet

SupervisorInit == StoreIdle /\ NoSessions

\* A step of one runner's own thread
RunnerStep(i) ==
    \/ \E uuid \in UUIDs : RunSyncBegins(i, uuid)
    \/ StartTensorboard(i)
    \/ StartTensorboardFails(i)
    \/ SkipTensorboard(i)
    \/ StartTraining(i)
    \/ StartTrainingFails(i)
    \/ WaitReturns(i)
    \/ \E delivered \in BOOLEAN : TerminateTensorboard(i, delivered)
    \/ SkipTerminate(i)
    \/ RunSyncReturns(i)

SupervisorNext ==
    \/ \E options \in SessionOptions : NewRunner(options)
    \/ \E i \in DOMAIN sessions, uuid \in UUIDs : RunSyncBegins(i, uuid)
    \/ \E i \in DOMAIN sessions : StartTensorboard(i)
    \/ \E i \in DOMAIN sessions : StartTensorboardFails(i)
    \/ \E i \in DOMAIN sessions : SkipTensorboard(i)
    \/ \E i \in DOMAIN sessions : StartTraining(i)
    \/ \E i \in DOMAIN sessions : StartTrainingFails(i)
    \/ \E p \in DOMAIN procs, exit_code \in ExitCodes : ProcessExits(p, exit_code)
    \/ \E i \in DOMAIN sessions : WaitReturns(i)
    \/ \E i \in DOMAIN sessions, delivered \in BOOLEAN : TerminateTensorboard(i, delivered)
    \/ \E i \in DOMAIN sessions : SkipTerminate(i)
    \/ \E i \in DOMAIN sessions : RunSyncReturns(i)
    \/ ExternalMonitorStarts
    \/ ExternalMonitorStops

SupervisorSpec == SupervisorInit /\ [][SupervisorNext]_vars

\* Each runner's thread keeps running while it has a step to take; nothing
\* makes a process exit
FairSupervisorSpec ==
    SupervisorSpec /\ \A i \in 1..MaxSessions : WF_vars(i \in DOMAIN sessions /\ RunnerStep(i))

(***************************** claims on the supervisor *********************)
\* The TensorBoard process runner i launched, if any, is still running
OwnMonitorRuns(i) ==
    IF sessions[i].tensorboard_process = None THEN FALSE
    ELSE procs[sessions[i].tensorboard_process[1]].state = "running"

\* The training process of runner i has exited
TrainingHasExited(i) ==
    IF sessions[i].process = None THEN FALSE
    ELSE procs[sessions[i].process[1]].state = "exited"

\* C21: a runner whose run asks for TensorBoard and that has come to the
\* point of launching it while somebody listens on the port does not launch
\* one, and its tensorboard_url is the URL of the port.
C21_ListeningMonitorIsNotDuplicated ==
    [][\A i \in DOMAIN sessions :
         (/\ sessions[i].options.launch_tensorboard
          /\ sessions[i].pc = "started"
          /\ listener.by # "nobody") =>
            /\ ~StartTensorboard(i)
            /\ tensorboard_url(sessions[i]) = Some(DEFAULT_TENSORBOARD_PORT)]_vars

\* C22: terminate() is asked only of a TensorBoard process, by the runner
\* that launched it, after that runner's training process has exited; and a
\* runner that has finished has left no TensorBoard of its own running
\* without having asked it to terminate.
C22_OwnMonitorIsTerminated ==
    /\ \A p \in DOMAIN procs :
          procs[p].terminate_requested =>
             /\ procs[p].kind = "tensorboard"
             /\ sessions[procs[p].owner].tensorboard_process = Some(p)
             /\ TrainingHasExited(procs[p].owner)
    /\ \A i \in DOMAIN sessions :
          (sessions[i].pc = "finished" /\ OwnMonitorRuns(i)) =>
             procs[sessions[i].tensorboard_process[1]].terminate_requested

\* C23: a runner that failed to launch, to terminate or to wait for its
\* TensorBoard still spawns the training process and finishes with the
\* exit code of the training process and no error.
C23_MonitorFailuresDoNotFailTheRun ==
    \A i \in DOMAIN sessions :
        (sessions[i].pc = "finished" /\ sessions[i].raised_by # "training") =>
            /\ sessions[i].process # None
            /\ sessions[i].result # None
            /\ sessions[i].result[1].error = None
            /\ sessions[i].result[1].exit_code =
                  procs[sessions[i].process[1]].exit_code

\* C27: no two runners have the same scratch directory.
C27_ScratchDirectoriesAreDistinct ==
    \A i, j \in DOMAIN sessions :
        (i # j /\ sessions[i].temp_env_dir # None /\ sessions[j].temp_env_dir # None) =>
            sessions[i].temp_env_dir # sessions[j].temp_env_dir

C27_Witness ==
    \E i, j \in DOMAIN sessions :
        /\ i # j
        /\ sessions[i].options.run_id # sessions[j].options.run_id
        /\ sessions[i].pc = "waiting"
        /\ sessions[j].pc = "waiting"
        /\ sessions[i].temp_env_dir # None
        /\ sessions[j].temp_env_dir # None

\* C30: once the training process of a runner has exited, the runner
\* finishes, whatever its TensorBoard does.
C30_SupervisorAlwaysCompletes ==
    \A i \in 1..MaxSessions :
        (i \in DOMAIN sessions /\ TrainingHasExited(i))
            ~> (i \in DOMAIN sessions /\ sessions[i].pc = "finished")

(***************************** the run's log ********************************)
\* _pump_process_streams: one daemon thread per pipe reads the pipe chunk by
\* chunk and writes each chunk to the log file the supervisor writes its own
\* lines to.  A chunk is numbered by its place in what the pipe's process
\* has emitted.

\* The chunks one process writes to one pipe, and the lines of the supervisor
MaxChunks == 2
MaxMonitorChunks == 1
MaxLogLines == 1

\* The pipes of one run: the training process's two and one of TensorBoard's
StreamIds == {"training.stdout", "training.stderr", "tensorboard.stderr"}

Stream(emitted, unread, held, alive) ==
    [emitted |-> emitted, unread |-> unread, held |-> held, alive |-> alive]

LogEntry(source, chunk) == [source |-> source, chunk |-> chunk]

\* A reader that takes the newest chunk of the pipe
readline_newest(unread) == unread[Len(unread)]

\* src.readline(4096): the oldest chunk of the pipe that has not been read
readline(unread) == Head(unread)

\* The process a pipe belongs to: the training process is started after
\* TensorBoard
TensorboardPid == 1
TrainingPid == 2
ProcessOf(s) == IF s = "tensorboard.stderr" THEN TensorboardPid ELSE TrainingPid

\* The process, still running, writes its next chunk to the pipe
Emit(s) ==
    /\ procs[ProcessOf(s)].state = "running"
    /\ Len(streams[s].emitted) <
          (IF ProcessOf(s) = TensorboardPid THEN MaxMonitorChunks ELSE MaxChunks)
    /\ LET chunk == Len(streams[s].emitted) + 1
       IN  streams' = [streams EXCEPT ![s].emitted = Append(@, chunk),
                                      ![s].unread = Append(@, chunk)]
    /\ UNCHANGED <<sessions, procs, listener, issued, log, log_open>>
    /\ UNCHANGED store_vars

\* The pipe's _pump thread gets a chunk from readline
ReadLine(s) ==
    /\ streams[s].alive
    /\ streams[s].held = None
    /\ streams[s].unread # <<>>
    /\ streams' = [streams EXCEPT ![s].held = Some(readline(streams[s].unread)),
                                  ![s].unread = Tail(@)]
    /\ UNCHANGED <<sessions, procs, listener, issued, log, log_open>>
    /\ UNCHANGED store_vars

\* The thread writes the chunk to the log file and flushes; writing to the
\* file after the supervisor has closed it raises and ends the thread
WriteChunk(s) ==
    /\ streams[s].alive
    /\ streams[s].held # None
    /\ IF log_open
       THEN /\ log' = Append(log, LogEntry(s, streams[s].held[1]))
            /\ streams' = [streams EXCEPT ![s].held = None]
       ELSE /\ streams' = [streams EXCEPT ![s].held = None, ![s].alive = FALSE]
            /\ UNCHANGED log
    /\ UNCHANGED <<sessions, procs, listener, issued, log_open>>
    /\ UNCHANGED store_vars

\* The supervisor's log_line
log_line ==
    /\ log_open
    /\ Cardinality({k \in DOMAIN log : log[k].source = "supervisor"}) < MaxLogLines
    /\ log' = Append(log, LogEntry("supervisor",
                  Cardinality({k \in DOMAIN log : log[k].source = "supervisor"}) + 1))
    /\ UNCHANGED <<sessions, procs, listener, issued, streams, log_open>>
    /\ UNCHANGED store_vars

\* The `with open(...)` block ends after process.wait(), the wait for
\* TensorBoard and the bounded joins, with readers possibly still running
CloseLog ==
    /\ log_open
    /\ \A p \in DOMAIN procs : procs[p].state = "exited"
    /\ log_open' = FALSE
    /\ UNCHANGED <<sessions, procs, listener, issued, streams, log>>
    /\ UNCHANGED store_vars

LogInit ==
    /\ StoreIdle
    /\ sessions = <<>>
    /\ procs = <<Process("tensorboard", 1), Process("training", 1)>>
    /\ listener = ProcessListens(TensorboardPid)
    /\ issued = {}
    /\ streams = [s \in StreamIds |-> Stream(<<>>, <<>>, None, TRUE)]
    /\ log = <<>>
    /\ log_open = TRUE

LogNext ==
    \/ \E s \in StreamIds : Emit(s)
    \/ \E s \in StreamIds : ReadLine(s)
    \/ \E s \in StreamIds : WriteChunk(s)
    \/ \E p \in DOMAIN procs : ProcessExits(p, 0)
    \/ log_line
    \/ CloseLog

LogSpec == LogInit /\ [][LogNext]_vars

\* The chunks of pipe s in the log, in the order of the log
LoggedOf(s) ==
    LET FromS(entry) == entry.source = s
        entries == SelectSeq(log, FromS)
    IN  [k \in DOMAIN entries |-> entries[k].chunk]

\* C26: for every pipe, the chunks of the pipe in the log are, in the log's
\* order, a prefix of what the pipe's process has emitted.
C26_LogKeepsStreamOrder ==
    \A s \in StreamIds :
        /\ Len(LoggedOf(s)) <= Len(streams[s].emitted)
        /\ LoggedOf(s) = SubSeq(streams[s].emitted, 1, Len(LoggedOf(s)))

C26_Witness ==
    /\ Len(log) >= 5
    /\ log[1].source = "training.stderr"
    /\ log[2].source = "training.stdout"
    /\ log[3].source = "supervisor"
    /\ LoggedOf("training.stdout") = <<1, 2>>
    /\ LoggedOf("training.stderr") = <<1, 2>>
    /\ LoggedOf("tensorboard.stderr") # <<>>

(***************************** claims of the last group *********************)
\* C31: a status query can be answered in every state, for every run id and
\* override, whatever the run's task and its training process are doing,
\* and answering it changes neither the registry, nor a task or its
\* outcome, nor a file.
C31_GetStatusOnlyReads ==
    /\ [](\A run_id \in RunIds, ov \in Overrides : ENABLED get_status(run_id, ov))
    /\ [][GetStatus => UNCHANGED <<runs, tasks, fs>>]_vars

C31_Witness ==
    /\ ret.op = "get_status"
    /\ runs[ret.run_id].tracked
    /\ tasks[runs[ret.run_id].task].sup = "training"
    /\ \E r \in RunIds : ~runs[r].tracked /\ fs[build_run_directory(DEFAULT_RESULTS_DIRECTORY, r)].dir

(***************************** the metadata round trip **********************)
\* TrainingRunMetadata.save, try_load and to_options one after the other:
\* the options are drawn at the start, saved into a run directory, loaded
\* from it, and what was loaded is saved again.

\* TrainingOptions with every one of the nine fields taking two values
RoundTripOptions ==
    [env_executable_path : {None, Some(PATH_game_EXE)},
     trainer_config_path : {"config.yaml", "ppo.yaml"},
     run_id : RunIds,
     results_directory : {DEFAULT_RESULTS_DIRECTORY, "elsewhere"},
     conda_environment_name : {"mlagents", "base"},
     base_port : {None, Some(5005)},
     no_graphics : BOOLEAN,
     skip_conda : BOOLEAN,
     launch_tensorboard : BOOLEAN]

\* TrainingRunMetadata.save(run_directory, options) of the options at hand
SaveMetadata(run_directory) ==
    /\ UNCHANGED session_vars
    /\ ret.op \in {"options", "to_options"}
    /\ fs' = [fs EXCEPT ![run_directory] =
                    SavedRunDirectory(fs[run_directory], ret.options, "ok")]
    /\ ret' = [op |-> "save", run_directory |-> run_directory, options |-> ret.options]
    /\ UNCHANGED <<runs, tasks, lock>>

\* TrainingRunMetadata.try_load(run_directory).to_options()
LoadOptions(run_directory) ==
    /\ UNCHANGED session_vars
    /\ LET loaded == try_load(fs[run_directory].metadata)
       IN  /\ ~loaded.raised
           /\ loaded.value # None
           /\ ret' = [op |-> "to_options", run_directory |-> run_directory,
                      options |-> to_options(loaded.value[1])]
    /\ UNCHANGED <<runs, tasks, fs, lock>>

RoundTripInit ==
    /\ NoSessions
    /\ runs = [r \in RunIds |-> NoRun]
    /\ tasks = <<>>
    /\ fs = [d \in RunDirs |-> NoDir]
    /\ lock = NoOwner
    /\ \E options \in RoundTripOptions : ret = [op |-> "options", options |-> options]

RoundTripNext ==
    \/ \E run_directory \in RunDirs : SaveMetadata(run_directory)
    \/ \E run_directory \in RunDirs : LoadOptions(run_directory)

RoundTripSpec == RoundTripInit /\ [][RoundTripNext]_vars

\* C32: loading the metadata of a run directory right after options o were
\* saved into it, and converting it to options, gives o in all nine fields;
\* and saving options that were loaded from a run directory into that
\* directory leaves its document as it was.
C32_MetadataRoundTrips ==
    [][\A d \in RunDirs :
         /\ (LoadOptions(d) /\ ret.op = "save" /\ ret.run_directory = d) =>
                ret'.options = ret.options
         /\ (SaveMetadata(d) /\ ret.op = "to_options" /\ ret.run_directory = d) =>
                fs'[d].metadata = fs[d].metadata]_vars

C32_Witness ==
    /\ ret.op = "to_options"
    /\ ret.options.launch_tensorboard
    /\ ret.options.base_port # None
    /\ ret.options.env_executable_path # None
    /\ ret.options.results_directory # DEFAULT_RESULTS_DIRECTORY
    /\ fs[ret.run_directory].metadata = MetadataDocument(ret.options)
    /\ \E d \in RunDirs : d # ret.run_directory /\ fs[d].metadata = fs[ret.run_directory].metadata

\* The tasks of run id r that are not done, and those whose training
\* process is running
UnfinishedTasksOf(r) ==
    {t \in DOMAIN tasks : tasks[t].options.run_id = r /\ ~task_done(tasks[t])}

TrainingTasksOf(r) ==
    {t \in DOMAIN tasks : tasks[t].options.run_id = r /\ tasks[t].sup = "training"}

\* C33: for every run id at most one task is not done and at most one
\* training process runs; and the record of a run id is replaced by another
\* record only when its task is done and its supervisor has returned.
C33_OneLiveTaskPerRunId ==
    /\ [](\A r \in RunIds :
            /\ Cardinality(UnfinishedTasksOf(r)) <= 1
            /\ Cardinality(TrainingTasksOf(r)) <= 1)
    /\ [][\A r \in RunIds :
            (runs[r].tracked /\ runs'[r].tracked /\ runs'[r] # runs[r]) =>
                /\ task_done(tasks[runs[r].task])
                /\ tasks[runs[r].task].sup = "returned"]_vars

C33_Witness ==
    \E r \in RunIds :
        /\ runs[r].tracked
        /\ runs[r].task = 2
        /\ tasks[1].options.run_id = r
        /\ tasks[1].state = "done"
        /\ tasks[1].result[1].exit_code = Some(0)
        /\ tasks[2].sup = "training"

\* C34: a runner that has finished, with an exit code or with an error, has
\* no TensorBoard process of its own still running.
C34_FinishedRunnerLeavesNoMonitor ==
    \A i \in DOMAIN sessions :
        (sessions[i].pc = "finished" /\ sessions[i].result # None) => ~OwnMonitorRuns(i)

\* C35: every run a pass starts from a scanned run directory is registered
\* under the name of that directory and writes into that directory.
C35_ResumedRunKeepsItsDirectory ==
    [][ret'.op = "resume" =>
         \A k \in DOMAIN ret'.calls :
            LET call == ret'.calls[k]
            IN  (~call.result.raised /\ call.result.is_started) =>
                   /\ call.result.run.options.run_id = call.run_directory[2]
                   /\ build_run_directory(call.result.run.options.results_directory,
                                          call.result.run.options.run_id) = call.run_directory
                   /\ runs'[call.run_directory[2]].tracked]_vars

\* The conflict message of try_start for run id r
InProgressMsg(r) == Msg("Training run '{}' is already in progress.", r)

\* C36: a pass that follows a pass, with the runs the first pass started
\* still running, leaves the registry and the tasks as they are, and its
\* messages hold the conflict message of every run the first pass started.
C36_SecondPassStartsNothing ==
    [][(ret.op = "resume" /\ ret'.op = "resume") =>
          /\ tasks' = tasks
          /\ runs' = runs
          /\ \A k \in DOMAIN ret.calls :
                (~ret.calls[k].result.raised /\ ret.calls[k].result.is_started) =>
                   \E m \in DOMAIN ret'.messages :
                      ret'.messages[m] = InProgressMsg(ret.calls[k].options.run_id)]_vars

\* C37: a try_start in which making the run_logs directory or writing the
\* metadata fails raises to its caller and leaves the registry and the tasks
\* as they were: no task is scheduled, a completed record of the run id
\* stays, and a run id without a record gets none.
C37_FailedStartRegistersNothing ==
    [][\A options \in AllOptions, io \in IoOutcomes \ {"ok"} :
          (try_start(options, io)
             /\ (runs[options.run_id].tracked => is_completed(runs[options.run_id]))) =>
                /\ ret'.raised
                /\ runs' = runs
                /\ tasks' = tasks]_vars

C37_Witness ==
    /\ ret.op = "try_start"
    /\ ret.raised
    /\ runs[ret.options.run_id].tracked
    /\ tasks[runs[ret.options.run_id].task].state = "done"
    /\ \E r \in RunIds : ~runs[r].tracked

\* C38: once the log is closed, every chunk the training process wrote to
\* its stdout and its stderr is in the log.
C38_NoTrainingOutputIsLost ==
    ~log_open =>
        \A s \in StreamIds :
            ProcessOf(s) = TrainingPid => LoggedOf(s) = streams[s].emitted

====
